---- MODULE Spec2Model ----
(***************************************************************************)
(* The authenticated HTTP access layer of the document assistant's         *)
(* frontend: the shared axios instance `api`, its request interceptor      *)
(* (bearer injection from the CredentialStore) and its response            *)
(* interceptor (401 -> refresh -> replay), together with the module-level  *)
(* flag isRefreshing and the module-level _accessToken; and the chat page  *)
(* above it: ChatPage with the hooks useSession, useDocuments and useQuery *)
(* (the entity stores) and the session panel.                              *)
(*                                                                         *)
(* JavaScript runs one task at a time: a network response is delivered as  *)
(* one task, and everything the handler does up to its next network call   *)
(* (including the continuation of an `await` that the response settles)    *)
(* happens before the next response is delivered.  One action of the model *)
(* is one such task.                                                       *)
(***************************************************************************)
EXTENDS Integers, FiniteSets, Sequences, Bags, TLC

\* ---- bounds of the model ------------------------------------------------
NumReq == 2
MaxTok == 1
MaxAttempts == 3
\* Store operations that can be awaiting the network at the same time, a
\* fetchDocuments not counted (it goes with a loadSession or follows an
\* upload).
NumOps == 2
\* Sessions on the server.
MaxSess == 2
\* Actions the user takes on the chat page in one run.
MaxClicks == 2

\* ---- program constants --------------------------------------------------
\* `null`, the value of an empty CredentialStore and of an absent header.
None == 0

Callers == 1..NumReq
\* The refresh request issued by the response handler of caller r.
Child(r) == r + NumReq
Parent(c) == c - NumReq
Refreshes == {Child(r) : r \in Callers}
Ids == Callers \cup Refreshes
Tokens == 1..MaxTok

VARIABLES
    accessToken,   \* authService._accessToken (None = null)
    isRefreshing,  \* api.ts `let isRefreshing`
    req,           \* the request configs alive on the api instance, by id
    valid,         \* server: the access tokens it accepts
    nextTok,       \* server: number of access tokens issued so far
    navCount,      \* number of executions of window.location.href = "/login"
                   \* (the page being replaced by it is not modelled: the
                   \* application is followed on as long as it runs)
    clearCount,    \* number of executions of clearAccessToken() by the
                   \* response handler
    loggedOut      \* AuthProvider.logout has settled and no login or signup
                   \* has succeeded since

\* The state of the page ChatPage and of the hooks it composes (the entity
\* stores), and what the properties need to remember of a call.
VARIABLES
    sessions,          \* useSession: the session list
    currentSession,    \* useSession: the current selection (None = null)
    messages,          \* useSession: the message list
    sessionLoading,    \* useSession: isLoading
    sessionError,      \* useSession: error
    documents,         \* useDocuments: the document list
    documentsLoading,  \* useDocuments: isLoading
    documentLoading,   \* useDocument: isLoading (its error is read by nothing)
    documentsError,    \* useDocuments: error
    queryLoading,      \* useQuery: isLoading
    queryError,        \* useQuery: error
    sessionId,         \* ChatPage: the route parameter of /chat/:sessionId
    alerted,           \* SessionPanel: alert(...) has been executed
    clicks,            \* number of actions the user has taken on the page
    idIsSessionId,     \* server: whether a session's `id` is its `session_id`
    ops,               \* the store operations awaiting the network, a bag
    fetch              \* per request of the api model: the fetchSessions call
                       \* that issued it

apiVars == <<accessToken, isRefreshing, req, valid, nextTok, navCount, clearCount,
            loggedOut>>

sessionVars == <<sessions, currentSession, messages, sessionLoading, sessionError>>
documentVars == <<documents, documentsLoading, documentsError, documentLoading>>
queryVars == <<queryLoading, queryError>>
panelVars == <<alerted, clicks>>
pageVars == <<sessionVars, documentVars, queryVars, sessionId, panelVars, idIsSessionId, ops>>
hookVars == <<pageVars, fetch>>

vars == <<apiVars, hookVars>>

\* What a request can be answered with besides 200: HTTP 401, or a failure
\* that is not a 401 answer.  "500" stands for all of the latter: another 4xx
\* or 5xx status, or no response at all (connection failure, timeout, where
\* error.response is undefined); the handler reads nothing of an error but
\* `error.response?.status === 401`.
ErrorStatuses == {"401", "500"}

\* A request config and the promise the caller holds for it.
\*   st     "new" not yet issued, "sent" an attempt is on the network,
\*          "await" its 401 handler is suspended at `await api.post(REFRESH)`,
\*          "done" the promise returned to the caller has settled
\*   att    number of network submissions of this config so far
\*   retry  the _retry mark on the config
\*   hdr    config.headers.Authorization (None = absent)
\*   status the status of the last response (`error` of the handler)
\*   out    how the promise settled: "ok" resolved with the response, "own"
\*          rejected with the request's own error, "refreshError" rejected
\*          with the error of the refresh request
\*   got    (refresh request) access token carried by its 200 response
\* History of the request, read by the properties only:
\*   hdr1   Authorization of the first attempt
\*   peers  callers whose first attempt was on the network when this was issued
\*   cyc    caller whose refresh was started by, or was in progress at, this
\*          request's first 401 (None = no such 401 yet)
NewReq ==
    [st |-> "new", att |-> 0, retry |-> FALSE, hdr |-> None, status |-> "none",
     out |-> "none", got |-> None, hdr1 |-> None, peers |-> {}, cyc |-> None]

\* ---- values of the entity stores -----------------------------------------
\* A value that may be null or undefined is a sequence that is empty or holds
\* the value.
Null == <<>>
Some(x) == <<x>>

\* `a || b` for such a value: a unless it is null, undefined or "".
OrElse(a, b) == IF a = Null \/ a = Some("") THEN b ELSE a[1]

\* `data.sessions || []` and the like: arrays are truthy, absent fields not.
OrEmpty(a) == IF a = Null THEN <<>> ELSE a[1]

Range(f) == {f[i] : i \in DOMAIN f}

\* The sequences of distinct elements of S.
Lists(S) ==
    {l \in UNION {[1..n -> S] : n \in 0..Cardinality(S)} :
        \A i, j \in DOMAIN l : i # j => l[i] # l[j]}

\* Those the server lists sessions in: most recent first, a later session
\* having the greater session_id.
RecentFirst(S) == {l \in Lists(S) : \A i, j \in DOMAIN l : i < j => l[i] > l[j]}

\* A session is named by its session_id, a number from 1; its `id` is the
\* same value or a value of its own, as the server has it.
SessionIds == 1..MaxSess
Id(k) == IF idIsSessionId THEN k ELSE k + MaxSess

\* The document uploaded into session k.
Document(k) == [id |-> k, session_id |-> k]
DocumentsOf(k) == {Document(k)}

\* The message a query puts into the list at once, the message made of its
\* answer, and a message of the session's history on the server.
UserMessage(k) == [role |-> "user", session_id |-> k, content |-> "query"]
AssistantMessage(k) == [role |-> "assistant", session_id |-> k, content |-> "answer"]
HistoryMessage(k) == [role |-> "assistant", session_id |-> k, content |-> "history"]

\* Titles that are typed into the modal of the session panel, as strings of
\* characters: none, blanks only, a name, a name between blanks.
Titles == {<<>>, <<" ">>, <<" ", " ">>, <<"a">>, <<" ", "a", " ">>}

\* The `detail` of an error response: absent (also when there is no response
\* at all) or a text.
Details == {Null, Some("detail")}

\* A store operation awaiting the network.
\*   kind    the hook function
\*   arg     its argument: a session_id or a document id
\*   cur     currentSession as the function closed over it when it was called
\*   pend    the requests of the call that are on the network
\*   failed  (loadSession) Promise.all has rejected
\*   msgs    (loadSession) the messages response, once it is there
\*   chain   the call was made by handleDeleteSession, which goes on after it
\*   before  the list the call is about as it was when the call was made:
\*           the messages (askQuery), the sessions (deleteSession), the
\*           documents (deleteDocument)
\*   title   (createSession) the name in the body of POST /sessions
\*   gone    (fetchDocuments) the ids of the documents whose DELETE was
\*           answered with success while this call was awaited
NewOp ==
    [kind |-> "none", arg |-> None, cur |-> None, pend |-> {}, failed |-> FALSE,
     msgs |-> Null, chain |-> FALSE, before |-> <<>>, title |-> <<>>, gone |-> {}]

\* No fetchSessions call is bound to a request of the api model.
NoCall == [called |-> FALSE, data |-> Null, delivered |-> Null]

\* The useState initial values of the hooks, on the route /chat.
InitHooks ==
    /\ sessions = <<>>
    /\ currentSession = None
    /\ messages = <<>>
    /\ sessionLoading = FALSE
    /\ sessionError = Null
    /\ documents = <<>>
    /\ documentsLoading = FALSE
    /\ documentLoading = FALSE
    /\ documentsError = Null
    /\ queryLoading = FALSE
    /\ queryError = Null
    /\ sessionId = None
    /\ alerted = FALSE
    /\ clicks = 0
    /\ ops = EmptyBag
    /\ fetch = [r \in Callers |-> NoCall]

\* The access layer after the modules are loaded.
InitApi ==
    /\ accessToken = None
    /\ isRefreshing = FALSE
    /\ req = [id \in Ids |-> NewReq]
    /\ valid = {}
    /\ nextTok = 0
    /\ navCount = 0
    /\ clearCount = 0
    /\ loggedOut = FALSE

\* The application after the modules are loaded, before any page is mounted
\* (no session is involved, so the server's convention for `id` is fixed).
Init ==
    /\ InitApi
    /\ InitHooks
    /\ idIsSessionId = FALSE

\* authService.getAccessToken
getAccessToken == accessToken

\* The request interceptor: the Authorization header of the config after it.
\* A config that already has a header (a replay) keeps it when the store is
\* empty.
RequestInterceptor(hdr, token) ==
    IF token # None THEN token ELSE hdr

\* api(config): run the request interceptor against the store value `token`
\* and put the request on the network.
Send(rq, id, token) ==
    [rq EXCEPT ![id].st = "sent",
               ![id].att = @ + 1,
               ![id].hdr = RequestInterceptor(@, token)]

\* Callers whose first attempt is on the network.
FirstInFlight == {s \in Callers : req[s].st = "sent" /\ req[s].att = 1}

\* The caller whose handler is suspended in the refresh block.
Refresher == {p \in Callers : req[p].st = "await"}

\* A caller issues a request through api.  Callers are interchangeable, so
\* they are issued in the order of their ids.
Issue(r) ==
    /\ r \in Callers
    /\ req[r].st = "new"
    /\ \A s \in Callers : s < r => req[s].st # "new"
    /\ LET sent == Send(req, r, getAccessToken)
       IN req' = [sent EXCEPT ![r].hdr1 = sent[r].hdr,
                              ![r].peers = FirstInFlight]
    /\ UNCHANGED <<accessToken, isRefreshing, valid, nextTok, navCount, clearCount, loggedOut>>

\* ---- the server (REST collaborator) -------------------------------------
\* A non-refresh request is authorised iff it carries a token the server
\* accepts.  A token the server has issued may expire at any time: the
\* server's first 401 to a request carrying it is the moment the expiry is
\* observed, and from then on the server never accepts it again.  The refresh
\* endpoint decides on the browser-managed cookie, which this layer does not
\* see, so either answer is possible for it.
ServerAuthorises(id) == id \in Refreshes \/ req[id].hdr \in valid

\* The tokens the server still accepts after it has answered request id with
\* status.
ValidAfter(id, status) ==
    IF id \in Callers /\ status = "401" THEN valid \ {req[id].hdr} ELSE valid

\* ---- sign-in -------------------------------------------------------------
\* AuthProvider.login (signup is the same code on another endpoint) when its
\* POST is answered 200 with a token: the continuation stores the token.  A
\* sign-in request that is answered with an error goes through the response
\* interceptor like any caller's request and stores nothing.
login(tk) ==
    /\ nextTok < MaxTok
    /\ tk = nextTok + 1
    /\ nextTok' = tk
    /\ valid' = valid \cup {tk}
    /\ accessToken' = tk
    /\ UNCHANGED <<isRefreshing, req, navCount, clearCount>>
    /\ loggedOut' = FALSE

\* AuthProvider.logout when its POST has settled without a 401 (answered 200,
\* another error status, or not at all): the `finally` block empties the
\* store and routes to /login inside the running application.
logout ==
    /\ accessToken' = None
    /\ UNCHANGED <<isRefreshing, req, valid, nextTok, navCount, clearCount>>
    /\ loggedOut' = TRUE

\* ---- the response interceptor -------------------------------------------
\* Variants of the handler's conditions, each the slip named in its comment.
\* The _retry mark is not consulted.
ShouldRefresh_IgnoresRetry(id, status) == status = "401"

\* The status is not consulted: every error of an unmarked request refreshes.
ShouldRefresh_AnyError(id, status) == ~req[id].retry

\* Every failure of the refresh request is taken for a rejection.
IsTerminal_AnyFailure(status) == TRUE

\* The handler rejects with the refresh error whatever it is.
RefreshFailureOutcome_RefreshError(status) == "refreshError"

\* `error.response?.status === 401 && !originalRequest?._retry`
ShouldRefresh(id, status) == status = "401" /\ ~req[id].retry

\* `refreshError?.response?.status === 401`
IsTerminal(status) == status = "401"

\* What the suspended handler rejects with when the refresh request failed:
\* `Promise.reject(refreshError)` inside the 401 branch of the catch block,
\* `Promise.reject(error)` after it.
RefreshFailureOutcome(status) ==
    IF IsTerminal(status) THEN "refreshError" ELSE "own"

\* `if (originalRequest) originalRequest._retry = true`
MarkRetry(rq, id) == [rq EXCEPT ![id].retry = TRUE]

\* The response with `status` reaches the handler of request id.
Receive(rq, id, status) == [rq EXCEPT ![id].status = status]

\* The promise of request id settles with outcome o.
Settle(rq, id, o) == [rq EXCEPT ![id].st = "done", ![id].out = o]

\* `(response) => response` for a caller's request.
OnFulfilled(r) ==
    /\ r \in Callers
    /\ req[r].st = "sent"
    /\ ServerAuthorises(r)
    /\ req' = Settle(Receive(req, r, "200"), r, "ok")
    /\ UNCHANGED <<accessToken, isRefreshing, valid, nextTok, navCount, clearCount, loggedOut>>

\* An error that is to be refreshed, while isRefreshing: the request is
\* marked and handed to api again at once.
ReplayWhileRefreshing(id, status) ==
    /\ id \in Ids
    /\ req[id].st = "sent"
    /\ req[id].att < MaxAttempts
    /\ status \in ErrorStatuses
    /\ ShouldRefresh(id, status)
    /\ isRefreshing
    /\ valid' = ValidAfter(id, status)
    /\ LET marked == MarkRetry(Receive(req, id, status), id)
           noted == IF req[id].cyc = None /\ id \in Callers
                    THEN [marked EXCEPT ![id].cyc = CHOOSE p \in Refresher : TRUE]
                    ELSE marked
       IN req' = Send(noted, id, getAccessToken)
    /\ UNCHANGED <<accessToken, isRefreshing, nextTok, navCount, clearCount, loggedOut>>

\* An error that is to be refreshed, while no refresh is in progress: the
\* handler marks the request, raises isRefreshing, posts the refresh request
\* and suspends on it.
StartRefresh(r, status) ==
    /\ r \in Callers
    /\ req[r].st = "sent"
    /\ req[Child(r)].att < MaxAttempts
    /\ status \in ErrorStatuses
    /\ ShouldRefresh(r, status)
    /\ ~isRefreshing
    /\ isRefreshing' = TRUE
    /\ valid' = ValidAfter(r, status)
    /\ LET marked == [MarkRetry(Receive(req, r, status), r)
                        EXCEPT ![r].st = "await",
                               ![r].cyc = IF @ = None THEN r ELSE @]
       IN req' = Send(marked, Child(r), getAccessToken)
    /\ UNCHANGED <<accessToken, nextTok, navCount, clearCount, loggedOut>>

\* The token field of the response is stored whether it is there or not.
RefreshFulfilled_StoresAnyValue(c, tk) ==
    /\ c \in Refreshes
    /\ req[c].st = "sent"
    /\ req[Parent(c)].att < MaxAttempts
    /\ \/ tk = None /\ UNCHANGED <<valid, nextTok>>
       \/ /\ nextTok < MaxTok
          /\ tk = nextTok + 1
          /\ nextTok' = tk
          /\ valid' = valid \cup {tk}
    /\ accessToken' = tk
    /\ isRefreshing' = FALSE
    /\ LET settled == [Settle(Receive(req, c, "200"), c, "ok") EXCEPT ![c].got = tk]
       IN req' = Send(settled, Parent(c), accessToken')
    /\ UNCHANGED <<navCount, clearCount, loggedOut>>

\* The refresh request c is answered 200, with access token tk or with none.
\* The suspended handler stores the token if there is one, lowers
\* isRefreshing and hands the original request to api again.
RefreshFulfilled(c, tk) ==
    /\ c \in Refreshes
    /\ req[c].st = "sent"
    /\ req[Parent(c)].att < MaxAttempts
    /\ \/ tk = None /\ UNCHANGED <<valid, nextTok>>
       \/ /\ nextTok < MaxTok
          /\ tk = nextTok + 1
          /\ nextTok' = tk
          /\ valid' = valid \cup {tk}
    /\ accessToken' = IF tk # None THEN tk ELSE accessToken
    /\ isRefreshing' = FALSE
    /\ LET settled == [Settle(Receive(req, c, "200"), c, "ok") EXCEPT ![c].got = tk]
       IN req' = Send(settled, Parent(c), accessToken')
    /\ UNCHANGED <<navCount, clearCount, loggedOut>>

\* An error that is not to be refreshed (another status, no response, or a
\* 401 on a marked request), for a caller's request: the handler rejects
\* with the error.
RejectCaller(r, status) ==
    /\ r \in Callers
    /\ req[r].st = "sent"
    /\ status \in ErrorStatuses
    /\ ~ShouldRefresh(r, status)
    /\ valid' = ValidAfter(r, status)
    /\ req' = Settle(Receive(req, r, status), r, "own")
    /\ UNCHANGED <<accessToken, isRefreshing, nextTok, navCount, clearCount, loggedOut>>

\* The flag is lowered only where the store is cleared.
RefreshRejected_LowersOn401Only(c, status) ==
    /\ c \in Refreshes
    /\ req[c].st = "sent"
    /\ status \in ErrorStatuses
    /\ ~ShouldRefresh(c, status)
    /\ isRefreshing' = ~IsTerminal(status)
    /\ LET failed == Settle(Receive(req, c, status), c, "own")
       IN IF IsTerminal(status)
          THEN /\ accessToken' = None
               /\ clearCount' = clearCount + 1
               /\ navCount' = navCount + 1
               /\ req' = Settle(failed, Parent(c), RefreshFailureOutcome(status))
          ELSE /\ req' = Settle(failed, Parent(c), RefreshFailureOutcome(status))
               /\ UNCHANGED <<accessToken, clearCount, navCount>>
    /\ UNCHANGED <<valid, nextTok, loggedOut>>

\* The same for the refresh request c: its rejection lands in the catch
\* block of the suspended handler, which lowers isRefreshing and, when the
\* refresh error is a 401, clears the store, navigates to /login and rejects
\* with the refresh error; otherwise it rejects with the original error.
RefreshRejected(c, status) ==
    /\ c \in Refreshes
    /\ req[c].st = "sent"
    /\ status \in ErrorStatuses
    /\ ~ShouldRefresh(c, status)
    /\ isRefreshing' = FALSE
    /\ LET failed == Settle(Receive(req, c, status), c, "own")
       IN IF IsTerminal(status)
          THEN /\ accessToken' = None
               /\ clearCount' = clearCount + 1
               /\ navCount' = navCount + 1
               /\ req' = Settle(failed, Parent(c), RefreshFailureOutcome(status))
          ELSE /\ req' = Settle(failed, Parent(c), RefreshFailureOutcome(status))
               /\ UNCHANGED <<accessToken, clearCount, navCount>>
    /\ UNCHANGED <<valid, nextTok, loggedOut>>

\* The requests of this specification are made by callers that keep no
\* state in the entity stores.
Next ==
    \/ \E r \in Callers : Issue(r) /\ UNCHANGED hookVars
    \/ \E tk \in Tokens : login(tk) /\ UNCHANGED hookVars
    \/ \E r \in Callers : OnFulfilled(r) /\ UNCHANGED hookVars
    \/ \E id \in Ids : \E status \in ErrorStatuses :
          ReplayWhileRefreshing(id, status) /\ UNCHANGED hookVars
    \/ \E r \in Callers : \E status \in ErrorStatuses :
          StartRefresh(r, status) /\ UNCHANGED hookVars
    \/ \E c \in Refreshes : \E tk \in {None} \cup Tokens :
          RefreshFulfilled(c, tk) /\ UNCHANGED hookVars
    \/ \E r \in Callers : \E status \in ErrorStatuses :
          RejectCaller(r, status) /\ UNCHANGED hookVars
    \/ \E c \in Refreshes : \E status \in ErrorStatuses :
          RefreshRejected(c, status) /\ UNCHANGED hookVars

\* The access layer under the traffic of a session that signs in.
Spec == Init /\ [][Next]_vars

\* The same with the user signing out while requests are on the network.
NextSession ==
    \/ Next
    \/ logout /\ UNCHANGED hookVars

SpecSession == Init /\ [][NextSession]_vars

\* The guard `r \in Callers` of StartRefresh loses nothing: a refresh request
\* is on the network only while isRefreshing, so its 401 is never handled by
\* the refresh block.
RefreshOnlyWhileRefreshing ==
    \A c \in Refreshes : req[c].st = "sent" => isRefreshing /\ req[Parent(c)].st = "await"

TypeOK ==
    /\ accessToken \in {None} \cup Tokens
    /\ isRefreshing \in BOOLEAN
    /\ \A id \in Ids : req[id].att \in 0..MaxAttempts
    /\ Cardinality(Refresher) <= 1
    /\ isRefreshing <=> Refresher # {}

\* ---- vocabulary of the properties ---------------------------------------
Settled(r) == req[r].st = "done"

\* The first attempts of r and s were on the network at the same time.
Concurrent(r, s) == r \in req[s].peers \/ s \in req[r].peers

\* The number of POST /auth/refresh calls put on the network by the handler
\* of caller r.
RefreshPosts(r) == req[Child(r)].att

\* The refresh started by caller p has settled.
RefreshDone(p) == req[Child(p)].st = "done"

\* It settled with a new access token.
Renewed(p) == RefreshDone(p) /\ req[Child(p)].out = "ok" /\ req[Child(p)].got # None

\* The request ended on an error that has nothing to do with credentials.
Transient(r) == Settled(r) /\ req[r].status \in {"500"}

\* The response to an attempt of request id reaches its handler in this step
\* (nothing else changes a request that is on the network).
Answered(id) == req[id].st = "sent" /\ req'[id] # req[id]

\* Request id is put on the network again in this step.
Replayed(id) == req[id].att >= 1 /\ req'[id].att = req[id].att + 1

\* C1: for two requests that were in flight concurrently and each got a 401,
\* the first with no refresh active and the second with none active or
\* during the refresh the first one started, exactly one POST /auth/refresh
\* has been put on the network once both have settled, whether that refresh
\* succeeded (200) or was rejected (401).
C1_OneRefreshPerGroup ==
    \A r, s \in Callers :
        ( /\ r # s
          /\ Concurrent(r, s)
          /\ req[r].cyc = r
          /\ req[s].cyc \in {r, s}
          /\ Settled(r) /\ Settled(s)
          /\ req[Child(r)].status \in {"200", "401"} )
        => RefreshPosts(r) + RefreshPosts(s) = 1

\* The attempts of r carried nothing but the credential of its first attempt
\* and the one the refresh of p returned (no sign-in put another one in the
\* store in between).
SameCredentials(r, p) == req[r].hdr \in {req[r].hdr1, req[Child(p)].got}

\* C2: for two concurrent requests that got their 401 on the same credential
\* and in the same refresh cycle, the outcomes follow the refresh: both
\* resolve when it returned a token (which the server still accepts, and no
\* unrelated error hit them), both fail when it was rejected or failed.
C2_OutcomesFollowRefresh ==
    \A p, s \in Callers :
        ( /\ p # s
          /\ Concurrent(p, s)
          /\ req[p].cyc = p
          /\ req[s].cyc = p
          /\ req[s].hdr1 = req[p].hdr1
          /\ SameCredentials(p, p) /\ SameCredentials(s, p)
          /\ Settled(p) /\ Settled(s) )
        => /\ ( /\ Renewed(p)
                /\ req[Child(p)].got \in valid
                /\ ~Transient(p) /\ ~Transient(s) )
              => req[p].out = "ok" /\ req[s].out = "ok"
           /\ req[Child(p)].out # "ok"
              => req[p].out # "ok" /\ req[s].out # "ok"

\* C3, one step: a caller's request whose first 401 arrives while
\* isRefreshing posts no refresh and is not resubmitted by that step, and a
\* caller's request is resubmitted only by a step after which the refresh of
\* its cycle has settled.
C3_Step ==
    \A r \in Callers :
        /\ (Answered(r) /\ isRefreshing /\ ~req[r].retry /\ req'[r].status = "401")
           => /\ RefreshPosts(r)' = RefreshPosts(r)
              /\ req'[r].att = req[r].att
        /\ Replayed(r)
           => /\ req'[r].cyc \in Callers
              /\ req'[Child(req'[r].cyc)].st = "done"

\* C3: a request whose 401 arrives during a refresh starts none of its own
\* and waits for that refresh before it is resubmitted; no replay is issued
\* before the refresh it depends on has completed.
C3_ReplayAfterRefresh == [][C3_Step]_vars

\* C4: when the refresh of its cycle returned a new access token, a replay
\* carries that token, and not the one the failed attempt carried.
C4_ReplayCarriesNewToken ==
    \A r \in Callers :
        (req[r].att = 2 /\ req[r].cyc \in Callers /\ Renewed(req[r].cyc))
        => /\ req[r].hdr = req[Child(req[r].cyc)].got
           /\ req[r].hdr1 # None => req[r].hdr # req[r].hdr1

\* C5, one step: the answer to a marked request settles it and does nothing
\* else: no resubmission, no refresh request, and an error answer rejects
\* with that error.
C5_Step ==
    \A id \in Ids :
        (Answered(id) /\ req[id].retry)
        => /\ req'[id].st = "done"
           /\ req'[id].att = req[id].att
           /\ req'[id].status # "200" => req'[id].out = "own"
           /\ \A r \in Callers : RefreshPosts(r)' = RefreshPosts(r)

\* C5: every request is put on the network at most twice (once, and at most
\* one replay, which is marked), and the answer to a replay is final.
C5_ReplayedAtMostOnce ==
    /\ [](\A id \in Ids : req[id].att <= 2 /\ (req[id].att = 2 => req[id].retry))
    /\ [][C5_Step]_vars

\* A replay was answered 401 and the caller got that error.
C5_Witness ==
    \E r \in Callers :
        req[r].att = 2 /\ Settled(r) /\ req[r].status = "401" /\ req[r].out = "own"

\* The refresh cycles that ended with the refresh request rejected 401.
RejectedRefreshes ==
    {c \in Refreshes : req[c].st = "done" /\ req[c].status = "401"}

C7_Step ==
    \A r \in Callers :
        (Answered(r) /\ req[r].retry /\ req'[r].status = "401")
        => /\ req'[r].st = "done" /\ req'[r].out # "ok"
           /\ accessToken' = None
           /\ navCount' = navCount + 1

\* C7: a 401 on a replayed request is a terminal failure: it clears the
\* CredentialStore and forces navigation to /login.
C7_Replay401ForcesSignOut == [][C7_Step]_vars

\* C8, one step: when the refresh request fails with another status or gets
\* no response, the store, the navigation count and the number of
\* submissions of the original request stay as they are, and the caller's
\* promise rejects with the original request's own 401 error.
C8_Step ==
    \A c \in Refreshes :
        (Answered(c) /\ req'[c].status \in {"500"})
        => /\ accessToken' = accessToken
           /\ navCount' = navCount
           /\ clearCount' = clearCount
           /\ req'[Parent(c)].att = req[Parent(c)].att
           /\ req'[Parent(c)].st = "done"
           /\ req'[Parent(c)].out = "own"
           /\ req'[Parent(c)].status = "401"

\* C8: a refresh that fails for a reason other than 401 changes no
\* credential, forces no navigation, replays nothing, and the caller gets the
\* original 401.
C8_TransientRefreshFailure == [][C8_Step]_vars

\* A refresh failed without a 401 while the store held a token: the token is
\* still there, nothing was navigated, the caller has its own 401.
C8_Witness ==
    \E p \in Callers :
        /\ RefreshDone(p) /\ req[Child(p)].status \in {"500"}
        /\ Settled(p) /\ req[p].out = "own" /\ req[p].status = "401"
        /\ req[p].att = 1
        /\ accessToken # None
        /\ navCount = 0

\* C9, one step: an error answer other than 401 to a caller's request
\* rejects the caller's promise with that error and changes nothing else.
C9_Step ==
    \A r \in Callers :
        (Answered(r) /\ req'[r].status \in {"500"})
        => /\ req' = Settle(Receive(req, r, req'[r].status), r, "own")
           /\ UNCHANGED <<accessToken, isRefreshing, navCount, clearCount, loggedOut>>

\* C9: any error other than 401 on a non-refresh request goes to the caller
\* as it is: no refresh, no replay, no change of store or isRefreshing, no
\* navigation.
C9_OtherErrorsPassThrough == [][C9_Step]_vars

\* A first attempt failed with another error while a refresh was running
\* and the store held a token: the caller has the error, nothing was replayed.
C9_Witness ==
    \E r \in Callers :
        /\ Transient(r) /\ req[r].out = "own"
        /\ req[r].att = 1 /\ ~req[r].retry /\ RefreshPosts(r) = 0
        /\ isRefreshing
        /\ accessToken # None

\* C10, one step: a non-refresh request put on the network carries exactly the value the
\* store holds at that moment (no header when the store is empty).
C10_Step ==
    \A r \in Callers :
        req'[r].att = req[r].att + 1 => req'[r].hdr = accessToken'

\* C10: every outbound request, first attempt or replay, carries the
\* CredentialStore's current value and nothing when the store is empty.
C10_HeaderIsStoreValue == [][C10_Step]_vars

\* C11: a request to the refresh endpoint never carries the bearer
\* credential, whatever the CredentialStore holds when it is issued.
C11_RefreshCarriesNoBearer ==
    \A c \in Refreshes : req[c].hdr = None

\* ---- fetchSessions over the access layer --------------------------------
\* The text an entity store records for a failed request:
\* `err.response?.data?.detail || fallback`.
ErrorMessage(detail, fallback) == Some(OrElse(detail, fallback))

\* What GET /sessions can carry as `response.data.sessions`.
SessionsData == {Null} \cup {Some(l) : l \in RecentFirst(SessionIds)}

\* The handler resolves with the refresh response instead of the replay's.
Delivered_RefreshResponse(r, data) == IF req[r].retry THEN Null ELSE data

\* What the promise held by the caller of request r resolves with when the
\* attempt on the network is answered 200 carrying data: that response, on
\* the first attempt (`(response) => response`) and on the replay (`return
\* api(originalRequest)`) alike.
Delivered(r, data) == data

\* What a fetchSessions call leaves alone.
FetchFrame == UNCHANGED <<documentVars, queryVars, sessionId, panelVars, idIsSessionId, ops>>

\* useSession.fetchSessions up to its await, the single request of a page.
FetchSessionsCall(r) ==
    /\ \A s \in Callers : req[s].st = "new"
    /\ Issue(r)
    /\ sessionLoading' = TRUE
    /\ sessionError' = Null
    /\ fetch' = [fetch EXCEPT ![r].called = TRUE]
    /\ UNCHANGED <<sessions, currentSession, messages>>
    /\ FetchFrame

\* The rest of fetchSessions, run in the task that settles its request.
FetchSessionsThen(delivered) ==
    /\ sessions' = OrEmpty(delivered)
    /\ sessionLoading' = FALSE
    /\ UNCHANGED <<currentSession, messages, sessionError>>

FetchSessionsCatch(detail) ==
    /\ sessionError' = ErrorMessage(detail, "Failed to fetch sessions")
    /\ sessionLoading' = FALSE
    /\ UNCHANGED <<sessions, currentSession, messages>>

\* The request of the call is answered 200, on its first attempt or on its
\* replay.
FetchOnFulfilled(r, data) ==
    /\ fetch[r].called
    /\ OnFulfilled(r)
    /\ fetch' = [fetch EXCEPT ![r].data = data, ![r].delivered = Delivered(r, data)]
    /\ FetchSessionsThen(fetch'[r].delivered)
    /\ FetchFrame

\* It ends on an error that is not refreshed.
FetchRejectCaller(r, status, detail) ==
    /\ fetch[r].called
    /\ RejectCaller(r, status)
    /\ FetchSessionsCatch(detail)
    /\ FetchFrame
    /\ UNCHANGED fetch

\* The refresh made for it fails.
FetchRefreshRejected(c, status, detail) ==
    /\ fetch[Parent(c)].called
    /\ RefreshRejected(c, status)
    /\ FetchSessionsCatch(detail)
    /\ FetchFrame
    /\ UNCHANGED fetch

\* A page that was left by earlier operations with some session list and
\* possibly an error calls fetchSessions.
InitFetch ==
    /\ InitApi
    /\ sessions \in RecentFirst(SessionIds)
    /\ currentSession = None
    /\ messages = <<>>
    /\ sessionLoading = FALSE
    /\ sessionError \in {Null, ErrorMessage(Null, "Failed to fetch sessions")}
    /\ documents = <<>> /\ documentsLoading = FALSE /\ documentsError = Null
    /\ documentLoading = FALSE
    /\ queryLoading = FALSE /\ queryError = Null
    /\ sessionId = None
    /\ alerted = FALSE
    /\ clicks = 0
    /\ ops = EmptyBag
    /\ fetch = [r \in Callers |-> NoCall]
    /\ idIsSessionId = FALSE

NextFetch ==
    \/ \E r \in Callers : FetchSessionsCall(r)
    \/ \E tk \in Tokens : login(tk) /\ UNCHANGED hookVars
    \/ \E r \in Callers : \E data \in SessionsData : FetchOnFulfilled(r, data)
    \/ \E id \in Ids : \E status \in ErrorStatuses :
          ReplayWhileRefreshing(id, status) /\ UNCHANGED hookVars
    \/ \E r \in Callers : \E status \in ErrorStatuses :
          StartRefresh(r, status) /\ UNCHANGED hookVars
    \/ \E c \in Refreshes : \E tk \in {None} \cup Tokens :
          RefreshFulfilled(c, tk) /\ UNCHANGED hookVars
    \/ \E r \in Callers : \E status \in ErrorStatuses : \E detail \in Details :
          FetchRejectCaller(r, status, detail)
    \/ \E c \in Refreshes : \E status \in ErrorStatuses : \E detail \in Details :
          FetchRefreshRejected(c, status, detail)

\* One fetchSessions call, followed through the access layer.
SpecFetch == InitFetch /\ [][NextFetch]_vars

\* C12: a fetchSessions call whose request is answered 401, then refreshed,
\* then replayed with success leaves its caller with what a first-try success
\* leaves: the promise resolved with the response of the attempt that
\* succeeded, the list that response carries, no error, loading false.
C12_ReplayLooksLikeFirstTry ==
    \A r \in Callers :
        (fetch[r].called /\ Settled(r) /\ req[r].out = "ok")
        => /\ fetch[r].delivered = fetch[r].data
           /\ sessions = OrEmpty(fetch[r].data)
           /\ sessionError = Null
           /\ sessionLoading = FALSE

\* The call succeeded on its replay, after a refresh that succeeded, with a
\* list that is not the one the page had.
C12_Witness ==
    \E r \in Callers :
        /\ fetch[r].called /\ Settled(r) /\ req[r].out = "ok"
        /\ req[r].att = 2 /\ req[r].retry
        /\ RefreshDone(r) /\ req[Child(r)].out = "ok"
        /\ fetch[r].data = Some(<<2, 1>>)

\* ---- the chat page: the entity stores under ChatPage --------------------
\* Here a request made through api is taken by what its caller sees of it:
\* the promise resolves with a response or rejects with an error.

\* JavaScript's String.prototype.trim on a title.
RECURSIVE TrimStart(_)
TrimStart(t) == IF t # <<>> /\ Head(t) = " " THEN TrimStart(Tail(t)) ELSE t

RECURSIVE TrimEnd(_)
TrimEnd(t) ==
    IF t # <<>> /\ t[Len(t)] = " " THEN TrimEnd(SubSeq(t, 1, Len(t) - 1)) ELSE t

\* Nothing is trimmed: only the empty title is refused.
Trim_Nothing(t) == t

Trim(t) == TrimEnd(TrimStart(t))

\* `!newSessionTitle.trim()`
IsBlank(t) == Trim(t) = <<>>

\* The operations awaiting the network, and how many more can.
InFlight == BagToSet(ops)
Free ==
    NumOps - BagCardinality([op \in {p \in InFlight : p.kind # "fetchDocuments"} |-> ops[op]])

\* A call of a hook function: it closes over the currentSession of the render
\* it was created in.
Call(kind, arg, parts) ==
    [NewOp EXCEPT !.kind = kind, !.arg = arg, !.cur = currentSession, !.pend = parts]

\* The bag of operations after one is called, after op has settled and after
\* op has gone on as next.
Started(new) == ops (+) SetToBag({new})
Finished(op) == ops (-) SetToBag({op})
Continued(op, next) == Finished(op) (+) SetToBag({next})

\* The awaited operations in b, each fetchDocuments among them remembering
\* that the DELETE of document id has been answered with success.
Remembering(p, id) ==
    IF p.kind = "fetchDocuments" THEN [p EXCEPT !.gone = @ \cup {id}] ELSE p

RECURSIVE Copies(_, _)
Copies(b, S) ==
    IF S = {} THEN 0
    ELSE LET p == CHOOSE x \in S : TRUE IN b[p] + Copies(b, S \ {p})

AfterDelete(b, id) ==
    [q \in {Remembering(p, id) : p \in BagToSet(b)} |->
        Copies(b, {p \in BagToSet(b) : Remembering(p, id) = q})]

SessionKinds == {"fetchSessions", "createSession", "loadSession", "deleteSession",
                 "fetchDocuments", "uploadDocument", "askQuery"}

\* The sessions the page has heard of; the server gives a new session a
\* session_id that is greater than all of them.
Known ==
    Range(sessions) \cup {currentSession, sessionId}
        \cup {op.arg : op \in {p \in InFlight : p.kind \in SessionKinds}}
        \cup {op.cur : op \in InFlight}

\* `prev.filter((s) => s.id !== sessionId)`
WithoutSession(list, sid) == SelectSeq(list, LAMBDA k : Id(k) # sid)

\* `prev.filter((d) => d.id !== documentId)`
WithoutDocument(list, did) == SelectSeq(list, LAMBDA d : d.id # did)

\* What the server can answer the list requests with.
MessagesData(k) == {Null, Some(<<HistoryMessage(k)>>)}
DocumentsData(k) == {Null} \cup {Some(l) : l \in Lists(DocumentsOf(k))}

\* The new session goes to the end of the list.
Prepended_AtTheEnd(list, newSession) == list \o <<newSession>>

\* `[newSession, ...prev]`
Prepended(list, newSession) == <<newSession>> \o list

\* The user acts on the page.
Click == clicks < MaxClicks /\ clicks' = clicks + 1

\* The Create button of the modal, pressed with newSessionTitle typed into
\* it: SessionPanel.handleCreateSession, and through
\* ChatPage.handleCreateSession the call of createSession up to its await.
HandleCreateSession(newSessionTitle) ==
    /\ newSessionTitle \in Titles
    /\ Click
    /\ IF IsBlank(newSessionTitle)
       THEN /\ alerted' = TRUE
            /\ UNCHANGED <<sessionLoading, sessionError, ops>>
       ELSE /\ Free >= 1
            /\ ops' = Started([Call("createSession", None, {"create"}) EXCEPT !.title = newSessionTitle])
            /\ sessionLoading' = TRUE
            /\ sessionError' = Null
            /\ UNCHANGED alerted
    /\ UNCHANGED <<apiVars, fetch, sessions, currentSession, messages, documentVars,
                   queryVars, sessionId, idIsSessionId>>

\* POST /sessions is answered with the new session k: createSession prepends
\* and selects it, and handleCreateSession navigates to /chat/k, where the
\* effect on the route finds it selected already.
CreateSessionFulfilled(op, k) ==
    /\ op.kind = "createSession"
    /\ k \in SessionIds
    /\ \A j \in Known : k > j
    /\ sessions' = Prepended(sessions, k)
    /\ currentSession' = k
    /\ messages' = <<>>
    /\ sessionLoading' = FALSE
    /\ sessionId' = k
    /\ ops' = Finished(op)
    /\ UNCHANGED <<apiVars, fetch, sessionError, documentVars, queryVars, panelVars,
                   idIsSessionId>>

CreateSessionRejected(op, detail) ==
    /\ op.kind = "createSession"
    /\ sessionError' = ErrorMessage(detail, "Failed to create session")
    /\ sessionLoading' = FALSE
    /\ ops' = Finished(op)
    /\ UNCHANGED <<apiVars, fetch, sessions, currentSession, messages, documentVars,
                   queryVars, sessionId, panelVars, idIsSessionId>>

\* handleDeleteSession after `await fetchSessions()`: the toast, and the
\* navigation to /chat when the session deleted was the selection it closed
\* over.  fetchSessions never throws, so this runs whatever its outcome.
AfterFetchSessions(op) ==
    /\ sessionId' = IF op.chain /\ op.cur # None /\ op.cur = op.arg
                    THEN None
                    ELSE sessionId
    /\ ops' = Finished(op)

FetchSessionsFulfilled(op, data) ==
    /\ op.kind = "fetchSessions"
    /\ FetchSessionsThen(data)
    /\ AfterFetchSessions(op)
    /\ UNCHANGED <<apiVars, fetch, documentVars, queryVars, panelVars, idIsSessionId>>

FetchSessionsRejected(op, detail) ==
    /\ op.kind = "fetchSessions"
    /\ FetchSessionsCatch(detail)
    /\ AfterFetchSessions(op)
    /\ UNCHANGED <<apiVars, fetch, documentVars, queryVars, panelVars, idIsSessionId>>

\* A session of the panel is clicked: handleSelectSession navigates, and the
\* effect on the route calls loadSession and fetchDocuments unless the session
\* is the selection.
HandleSelectSession(k) ==
    /\ k \in Range(sessions)
    /\ Click
    /\ k # sessionId
    /\ sessionId' = k
    /\ IF k # currentSession
       THEN /\ Free >= 1
            /\ ops' = ops (+) SetToBag({Call("loadSession", k, {"session", "messages"}),
                                        Call("fetchDocuments", k, {"documents"})})
            /\ sessionLoading' = TRUE
            /\ sessionError' = Null
            /\ documentsLoading' = TRUE
            /\ documentsError' = Null
       ELSE UNCHANGED <<ops, sessionLoading, sessionError, documentsLoading, documentsError>>
    /\ UNCHANGED <<apiVars, fetch, sessions, currentSession, messages, documents, documentLoading,
                   queryVars, alerted, idIsSessionId>>

\* One of the two requests of loadSession is answered 200.  When it is the
\* last and the other was not rejected, Promise.all resolves and the session
\* and its messages become the selection and the message list.
LoadSessionFulfilled(op, part, data) ==
    /\ op.kind = "loadSession"
    /\ part \in op.pend
    /\ data \in IF part = "messages" THEN MessagesData(op.arg) ELSE {Null}
    /\ LET next == [op EXCEPT !.pend = @ \ {part},
                              !.msgs = IF part = "messages" THEN data ELSE @]
       IN IF next.pend = {}
          THEN /\ ops' = Finished(op)
               /\ IF next.failed
                  THEN UNCHANGED <<currentSession, messages, sessionLoading>>
                  ELSE /\ currentSession' = next.arg
                       /\ messages' = OrEmpty(next.msgs)
                       /\ sessionLoading' = FALSE
          ELSE /\ ops' = Continued(op, next)
               /\ UNCHANGED <<currentSession, messages, sessionLoading>>
    /\ UNCHANGED <<apiVars, fetch, sessions, sessionError, documentVars, queryVars,
                   sessionId, panelVars, idIsSessionId>>

\* One of them is rejected: the first rejection rejects Promise.all and runs
\* the catch block; a second one finds the promise settled.
LoadSessionRejected(op, part, detail) ==
    /\ op.kind = "loadSession"
    /\ part \in op.pend
    /\ LET next == [op EXCEPT !.pend = @ \ {part}, !.failed = TRUE]
       IN ops' = IF next.pend = {} THEN Finished(op) ELSE Continued(op, next)
    /\ IF op.failed
       THEN UNCHANGED <<sessionError, sessionLoading>>
       ELSE /\ sessionError' = ErrorMessage(detail, "Failed to load session")
            /\ sessionLoading' = FALSE
    /\ UNCHANGED <<apiVars, fetch, sessions, currentSession, messages, documentVars,
                   queryVars, sessionId, panelVars, idIsSessionId>>

\* Delete of a session of the panel is confirmed: handleDeleteSession calls
\* deleteSession with the session's session_id.
HandleDeleteSession(k) ==
    /\ k \in Range(sessions)
    /\ Click
    /\ Free >= 1
    /\ ops' = Started([Call("deleteSession", k, {"delete"})
                            EXCEPT !.chain = TRUE, !.before = sessions])
    /\ sessionLoading' = TRUE
    /\ sessionError' = Null
    /\ UNCHANGED <<apiVars, fetch, sessions, currentSession, messages, documentVars,
                   queryVars, sessionId, alerted, idIsSessionId>>

\* The value of a piece of state after the setState calls of one task, in
\* their order: the last one stands.
Batched(updates) == updates[Len(updates)]

\* handleDeleteSession after `await deleteSession(sessionId)`, which never
\* throws: it calls fetchSessions, in the task that ran deleteSession's
\* `finally`.
ThenFetchSessions(op) ==
    /\ sessionLoading' = Batched(<<FALSE, TRUE>>)
    /\ ops' = Continued(op, [op EXCEPT !.kind = "fetchSessions", !.pend = {"list"},
                                       !.before = <<>>])

\* DELETE /sessions/{session_id} is answered 200.
DeleteSessionFulfilled(op) ==
    /\ op.kind = "deleteSession"
    /\ sessions' = WithoutSession(sessions, op.arg)
    /\ IF op.cur # None /\ Id(op.cur) = op.arg
       THEN currentSession' = None /\ messages' = <<>>
       ELSE UNCHANGED <<currentSession, messages>>
    /\ sessionError' = Batched(<<sessionError, Null>>)
    /\ ThenFetchSessions(op)
    /\ UNCHANGED <<apiVars, fetch, documentVars, queryVars, sessionId,
                   panelVars, idIsSessionId>>

\* It fails: deleteSession records the message and returns, and the
\* fetchSessions that follows resets the error in the same task.
DeleteSessionRejected(op, detail) ==
    /\ op.kind = "deleteSession"
    /\ sessionError' = Batched(<<ErrorMessage(detail, "Failed to delete session"), Null>>)
    /\ ThenFetchSessions(op)
    /\ UNCHANGED <<apiVars, fetch, sessions, currentSession, messages, documentVars,
                   queryVars, sessionId, panelVars, idIsSessionId>>

\* GET /sessions/{session_id}/documents is answered.
FetchDocumentsFulfilled(op, data) ==
    /\ op.kind = "fetchDocuments"
    /\ data \in DocumentsData(op.arg)
    /\ documents' = OrEmpty(data)
    /\ documentsLoading' = FALSE
    /\ ops' = Finished(op)
    /\ UNCHANGED <<apiVars, fetch, sessionVars, documentsError, documentLoading, queryVars, sessionId,
                   panelVars, idIsSessionId>>

FetchDocumentsRejected(op, detail) ==
    /\ op.kind = "fetchDocuments"
    /\ documentsError' = ErrorMessage(detail, "Failed to fetch documents")
    /\ documentsLoading' = FALSE
    /\ ops' = Finished(op)
    /\ UNCHANGED <<apiVars, fetch, sessionVars, documents, documentLoading, queryVars, sessionId,
                   panelVars, idIsSessionId>>

\* Delete of a document of the document panel, which is shown while a session
\* is selected: handleDeleteDocument calls deleteDocument.
HandleDeleteDocument(d) ==
    /\ currentSession # None
    /\ Click
    /\ d \in Range(documents)
    /\ Free >= 1
    /\ ops' = Started([Call("deleteDocument", d.id, {"delete"}) EXCEPT !.before = documents])
    /\ documentsLoading' = TRUE
    /\ documentsError' = Null
    /\ UNCHANGED <<apiVars, fetch, sessionVars, documents, documentLoading, queryVars, sessionId,
                   alerted, idIsSessionId>>

DeleteDocumentFulfilled(op) ==
    /\ op.kind = "deleteDocument"
    /\ documents' = WithoutDocument(documents, op.arg)
    /\ documentsLoading' = FALSE
    /\ ops' = AfterDelete(Finished(op), op.arg)
    /\ UNCHANGED <<apiVars, fetch, sessionVars, documentsError, documentLoading, queryVars, sessionId,
                   panelVars, idIsSessionId>>

DeleteDocumentRejected(op, detail) ==
    /\ op.kind = "deleteDocument"
    /\ documentsError' = ErrorMessage(detail, "Failed to delete document")
    /\ documentsLoading' = FALSE
    /\ ops' = Finished(op)
    /\ UNCHANGED <<apiVars, fetch, sessionVars, documents, documentLoading, queryVars, sessionId,
                   panelVars, idIsSessionId>>

\* A file is uploaded in the document panel, which is shown while a session
\* is selected and whose Upload button is disabled while an upload is
\* loading: handleUploadDocument calls uploadDocument for the selection.
HandleUploadDocument ==
    /\ currentSession # None
    /\ Click
    /\ ~documentLoading
    /\ Free >= 1
    /\ ops' = Started(Call("uploadDocument", currentSession, {"upload"}))
    /\ documentLoading' = TRUE
    /\ UNCHANGED <<apiVars, fetch, sessionVars, documents, documentsLoading,
                   documentsError, queryVars, sessionId, alerted, idIsSessionId>>

\* POST /sessions/{session_id}/upload is answered 200: handleUploadDocument
\* goes on and calls fetchDocuments for the session it closed over.
UploadDocumentFulfilled(op) ==
    /\ op.kind = "uploadDocument"
    /\ documentLoading' = FALSE
    /\ documentsLoading' = TRUE
    /\ documentsError' = Null
    /\ ops' = Continued(op, [op EXCEPT !.kind = "fetchDocuments", !.pend = {"documents"}])
    /\ UNCHANGED <<apiVars, fetch, sessionVars, documents, queryVars, sessionId,
                   panelVars, idIsSessionId>>

\* It fails: uploadDocument rethrows and handleUploadDocument logs the error.
UploadDocumentRejected(op) ==
    /\ op.kind = "uploadDocument"
    /\ documentLoading' = FALSE
    /\ ops' = Finished(op)
    /\ UNCHANGED <<apiVars, fetch, sessionVars, documents, documentsLoading,
                   documentsError, queryVars, sessionId, panelVars, idIsSessionId>>

\* The message is put in front of the list.
addMessage_AtTheFront(list, message) == <<message>> \o list

\* `setMessages((prev) => [...prev, message])`
addMessage(list, message) == Append(list, message)

\* A query is submitted in the query panel, which is shown while a session is
\* selected and takes no input while a query is loading: handleAskQuery adds
\* the user message and calls askQuery.
HandleAskQuery ==
    /\ currentSession # None
    /\ Click
    /\ ~queryLoading
    /\ Free >= 1
    /\ messages' = addMessage(messages, UserMessage(currentSession))
    /\ queryLoading' = TRUE
    /\ queryError' = Null
    /\ ops' = Started([Call("askQuery", currentSession, {"query"}) EXCEPT !.before = messages])
    /\ UNCHANGED <<apiVars, fetch, sessions, currentSession, sessionLoading, sessionError,
                   documentVars, sessionId, alerted, idIsSessionId>>

\* POST /sessions/{session_id}/query is answered: askQuery makes the assistant
\* message of the answer and handleAskQuery adds it.
AskQueryFulfilled(op) ==
    /\ op.kind = "askQuery"
    /\ messages' = addMessage(messages, AssistantMessage(op.arg))
    /\ queryLoading' = FALSE
    /\ ops' = Finished(op)
    /\ UNCHANGED <<apiVars, fetch, sessions, currentSession, sessionLoading, sessionError,
                   documentVars, queryError, sessionId, panelVars, idIsSessionId>>

\* The failure is answered for the server: a message of the assistant is added.
AskQueryRejected_AddsAnswer(op, detail) ==
    /\ op.kind = "askQuery"
    /\ messages' = addMessage(messages, AssistantMessage(op.arg))
    /\ queryError' = ErrorMessage(detail, "Failed to send query")
    /\ queryLoading' = FALSE
    /\ ops' = Finished(op)
    /\ UNCHANGED <<apiVars, fetch, sessions, currentSession, sessionLoading, sessionError,
                   documentVars, sessionId, panelVars, idIsSessionId>>

\* POST /sessions/{session_id}/query fails: askQuery records the message and
\* rethrows, and handleAskQuery logs the error.
AskQueryRejected(op, detail) ==
    /\ op.kind = "askQuery"
    /\ queryError' = ErrorMessage(detail, "Failed to send query")
    /\ queryLoading' = FALSE
    /\ ops' = Finished(op)
    /\ UNCHANGED <<apiVars, fetch, sessionVars, documentVars, sessionId, panelVars,
                   idIsSessionId>>

\* ChatPage mounted on /chat or on /chat/{session_id}: the hooks hold their
\* initial values and the mount effect has called fetchSessions; with a
\* session in the route, the effect on the route has called loadSession and
\* fetchDocuments as well.
InitMounted ==
    /\ InitApi
    /\ sessions = <<>>
    /\ currentSession = None
    /\ messages = <<>>
    /\ sessionLoading = TRUE
    /\ sessionError = Null
    /\ documents = <<>> /\ documentsError = Null
    /\ queryLoading = FALSE /\ queryError = Null
    /\ sessionId \in {None} \cup SessionIds
    /\ documentsLoading = (sessionId # None)
    /\ documentLoading = FALSE
    /\ alerted = FALSE
    /\ clicks = 0
    /\ ops = SetToBag(
            {[NewOp EXCEPT !.kind = "fetchSessions", !.pend = {"list"}]}
            \cup IF sessionId = None
                 THEN {}
                 ELSE {[NewOp EXCEPT !.kind = "loadSession", !.arg = sessionId,
                                     !.pend = {"session", "messages"}],
                       [NewOp EXCEPT !.kind = "fetchDocuments", !.arg = sessionId,
                                     !.pend = {"documents"}]})
    /\ fetch = [r \in Callers |-> NoCall]
    /\ idIsSessionId \in BOOLEAN

\* The page mounted on /chat, and the page mounted on the route of a session.
InitPage == InitMounted /\ sessionId = None
InitRoute == InitMounted /\ sessionId # None

NextPage ==
    \/ \E t \in Titles : HandleCreateSession(t)
    \/ \E op \in InFlight : \E k \in SessionIds : CreateSessionFulfilled(op, k)
    \/ \E op \in InFlight : \E detail \in Details : CreateSessionRejected(op, detail)
    \/ \E op \in InFlight : \E data \in SessionsData : FetchSessionsFulfilled(op, data)
    \/ \E op \in InFlight : \E detail \in Details : FetchSessionsRejected(op, detail)
    \/ \E k \in SessionIds : HandleSelectSession(k)
    \/ \E op \in InFlight : \E part \in {"session", "messages"} :
          \E data \in {Null} \cup UNION {MessagesData(k) : k \in SessionIds} :
              LoadSessionFulfilled(op, part, data)
    \/ \E op \in InFlight : \E part \in {"session", "messages"} : \E detail \in Details :
          LoadSessionRejected(op, part, detail)
    \/ \E k \in SessionIds : HandleDeleteSession(k)
    \/ \E op \in InFlight : DeleteSessionFulfilled(op)
    \/ \E op \in InFlight : \E detail \in Details : DeleteSessionRejected(op, detail)
    \/ \E op \in InFlight : \E data \in UNION {DocumentsData(k) : k \in SessionIds} :
          FetchDocumentsFulfilled(op, data)
    \/ \E op \in InFlight : \E detail \in Details : FetchDocumentsRejected(op, detail)
    \/ \E d \in UNION {DocumentsOf(k) : k \in SessionIds} : HandleDeleteDocument(d)
    \/ \E op \in InFlight : DeleteDocumentFulfilled(op)
    \/ \E op \in InFlight : \E detail \in Details : DeleteDocumentRejected(op, detail)
    \/ HandleUploadDocument
    \/ \E op \in InFlight : UploadDocumentFulfilled(op)
    \/ \E op \in InFlight : UploadDocumentRejected(op)
    \/ HandleAskQuery
    \/ \E op \in InFlight : AskQueryFulfilled(op)
    \/ \E op \in InFlight : \E detail \in Details : AskQueryRejected(op, detail)

\* The chat page under the actions of its user and the answers of the server.
SpecPage == InitPage /\ [][NextPage]_vars
SpecRoute == InitRoute /\ [][NextPage]_vars

\* ---- claims about the entity stores ---------------------------------------

\* C13: when the delete of the selected session succeeds (deleteSession called
\* with its session_id, from a render that had it selected), then after
\* deleteSession has handled the response the selection is null, the message
\* list and the document list are empty and the session is not in the list.
C13_DeleteSelectedClearsAll ==
    [][\A op \in InFlight :
          DeleteSessionFulfilled(op) /\ op.cur = op.arg /\ currentSession = op.arg
              => /\ currentSession' = None
                 /\ messages' = <<>>
                 /\ documents' = <<>>
                 /\ op.arg \notin Range(sessions')]_vars

\* C14: the delete of a session that is not the selection, when it succeeds,
\* leaves currentSession, the message list and the document list as they
\* were and takes that session, and no other, out of the session list.
C14_DeleteOtherRemovesOnlyIt ==
    [][\A op \in InFlight :
          DeleteSessionFulfilled(op) /\ op.cur # op.arg /\ currentSession # op.arg
              => /\ UNCHANGED <<currentSession, messages, documents>>
                 /\ sessions' = SelectSeq(sessions, LAMBDA k : k # op.arg)]_vars

\* C15: when createSession succeeds, the session the server returned is the
\* first of the session list, the sessions listed before follow it in the
\* order they had, it is the selection and the message list is empty.
C15_CreatedIsFirstAndSelected ==
    [][\A op \in InFlight : \A k \in SessionIds :
          CreateSessionFulfilled(op, k)
              => /\ sessions' # <<>>
                 /\ Head(sessions') = k
                 /\ Tail(sessions') = sessions
                 /\ currentSession' = k
                 /\ messages' = <<>>]_vars

\* Two sessions were created one after the other while the list request of
\* the mount was still awaited: the second one heads the list and is selected.
C15_Witness ==
    /\ sessions = <<2, 1>>
    /\ currentSession = 2
    /\ messages = <<>>
    /\ clicks = 2
    /\ \E op \in InFlight : op.kind = "fetchSessions" /\ ~op.chain

\* C16: a Create pressed with a name that is empty or of white space only is
\* refused on the spot: no call is started and the session list, the
\* selection and the message list are unchanged; and no POST /sessions is
\* ever awaited with such a name, whatever started it.
C16_BlankNameRefusedLocally ==
    [][/\ \A t \in Titles :
            HandleCreateSession(t) /\ (\A i \in DOMAIN t : t[i] = " ")
                => UNCHANGED <<ops, sessions, currentSession, messages>>
       /\ \A op \in BagToSet(ops') :
            op.kind = "createSession" => \E i \in DOMAIN op.title : op.title[i] # " "]_vars

\* A blank name was submitted and refused while only the list request of the
\* mount is awaited; the next Create, with a name, has gone to the server.
C16_Witness ==
    /\ alerted
    /\ clicks = 2
    /\ \E op \in InFlight : op.kind = "createSession" /\ op.title = <<" ", "a", " ">>
    /\ sessions = <<>> /\ currentSession = None

\* C17: in the step in which a call of fetchSessions, createSession,
\* loadSession, deleteSession, fetchDocuments or deleteDocument settles on a
\* failed request, the session list, the selection, the message list and
\* the document list are left as they were, the error of the store is a
\* text that is not empty and its loading flag is false; and a loadSession of
\* which one request has failed changes none of the four when the other
\* request is answered.
C17_FailureRecordsErrorOnly ==
    [][\A op \in InFlight :
          /\ \A detail \in Details :
                \/ FetchSessionsRejected(op, detail)
                \/ CreateSessionRejected(op, detail)
                \/ DeleteSessionRejected(op, detail)
                \/ \E part \in op.pend : ~op.failed /\ LoadSessionRejected(op, part, detail)
                => /\ UNCHANGED <<sessions, currentSession, messages, documents>>
                   /\ sessionError' # Null /\ sessionError' # Some("")
                   /\ sessionLoading' = FALSE
          /\ \A detail \in Details :
                \/ FetchDocumentsRejected(op, detail)
                \/ DeleteDocumentRejected(op, detail)
                => /\ UNCHANGED <<sessions, currentSession, messages, documents>>
                   /\ documentsError' # Null /\ documentsError' # Some("")
                   /\ documentsLoading' = FALSE
          /\ \A part \in op.pend :
                \/ \E data \in MessagesData(op.arg) \cup {Null} :
                       op.failed /\ LoadSessionFulfilled(op, part, data)
                \/ \E detail \in Details : LoadSessionRejected(op, part, detail)
                => UNCHANGED <<sessions, currentSession, messages, documents>>]_vars

\* C18: a query asked in the selected session and answered makes the message
\* list grow by two entries at its tail: the step that asks adds the user
\* message after the messages there were, the step that takes the answer
\* adds the assistant message after the messages there are, and when the
\* list is still the one the query left, the result is the list from before
\* the query followed by the user message and the assistant message.
C18_QueryAppendsUserThenAssistant ==
    [][/\ HandleAskQuery
            => /\ Len(messages') = Len(messages) + 1
               /\ SubSeq(messages', 1, Len(messages)) = messages
               /\ messages'[Len(messages')] = UserMessage(currentSession)
       /\ \A op \in InFlight :
            AskQueryFulfilled(op)
            => /\ Len(messages') = Len(messages) + 1
               /\ SubSeq(messages', 1, Len(messages)) = messages
               /\ messages'[Len(messages')] = AssistantMessage(op.arg)
               /\ messages = op.before \o <<UserMessage(op.arg)>>
                    => messages' = op.before \o <<UserMessage(op.arg), AssistantMessage(op.arg)>>]_vars

\* Session 1 was selected and loaded with its history, a query was asked in
\* it and answered.
C18_Witness ==
    /\ currentSession = 1
    /\ messages = <<HistoryMessage(1), UserMessage(1), AssistantMessage(1)>>
    /\ ~queryLoading
    /\ queryError = Null

\* The answers to queries asked from the page that are in a message list.
Answers(list) == {i \in DOMAIN list : list[i].content = "answer"}

\* C19: when a query request comes to be awaited the user message has been
\* put at the tail of the list; the list gains an assistant answer only in
\* a step that takes the successful response of a query request; and the
\* step that takes a failure leaves the list as it is, so that a list no
\* other operation has replaced is the one from before the query with the
\* user message after it.
C19_UserAtOnceAssistantOnSuccess ==
    [][/\ \A op \in BagToSet(ops') \ InFlight :
            op.kind = "askQuery" => messages' = messages \o <<UserMessage(op.arg)>>
       /\ Cardinality(Answers(messages')) > Cardinality(Answers(messages))
            => \E op \in InFlight : AskQueryFulfilled(op)
       /\ \A op \in InFlight : \A detail \in Details :
            AskQueryRejected(op, detail)
            => /\ messages' = messages
               /\ messages = op.before \o <<UserMessage(op.arg)>>
                    => messages' = op.before \o <<UserMessage(op.arg)>>]_vars

\* Session 1 was selected and loaded with its history, a query was asked in
\* it and its request failed.
C19_Witness ==
    /\ currentSession = 1
    /\ messages = <<HistoryMessage(1), UserMessage(1)>>
    /\ ~queryLoading
    /\ queryError # Null

\* ---- the CredentialStore and its writers --------------------------------

\* C20: the value of the CredentialStore changes only in a step that is a
\* sign-in answered with a token (login or signup), a refresh answered 200
\* with a token, a logout, or a refresh rejected with 401; a request that is
\* issued, answered, replayed or rejected otherwise leaves it as it is.
C20_StoreWrittenOnlyBySignInRefreshSignOut ==
    [][accessToken' # accessToken
          => \/ \E tk \in Tokens : login(tk)
             \/ \E c \in Refreshes : \E tk \in Tokens : RefreshFulfilled(c, tk)
             \/ logout
             \/ \E c \in Refreshes : RefreshRejected(c, "401")]_vars

\* After a sign-in a request was answered 401 and the refresh it started was
\* rejected with 401: the store was written twice and is empty again.
C20_Witness ==
    /\ nextTok = 1
    /\ clearCount = 1
    /\ accessToken = None
    /\ \E c \in Refreshes : req[c].st = "done" /\ req[c].status = "401"

\* ---- the refresh coordinator ---------------------------------------------

\* C21: isRefreshing is true exactly while a refresh call is awaited; it is
\* raised only by the step that starts a refresh call while it is false, and
\* the step in which a refresh call settles (renewed, rejected with 401 or
\* failed otherwise) lowers it, so that a later 401 finds it false.
C21_IdleRefreshingIdle ==
    /\ [](isRefreshing <=> \E c \in Refreshes : req[c].st = "sent")
    /\ [][/\ ~isRefreshing /\ isRefreshing'
               => \E r \in Callers : \E status \in ErrorStatuses : StartRefresh(r, status)
          /\ \A c \in Refreshes :
               req[c].st = "sent" /\ req'[c].st = "done" => ~isRefreshing'
          /\ isRefreshing /\ ~isRefreshing'
               => \E c \in Refreshes : req[c].st = "sent" /\ req'[c].st = "done"]_vars

\* A refresh call has failed without a 401 and the 401 of another request
\* has started a second one.
C21_Witness ==
    \E c, d \in Refreshes :
        /\ c # d
        /\ req[c].st = "done" /\ req[c].status = "500"
        /\ req[d].st = "sent"
        /\ isRefreshing

\* C23: a refresh request that is answered 401 is not put on the network
\* again: the refresh call of a handler is one POST /auth/refresh.
C23_RefreshRequestPostedOnce ==
    \A c \in Refreshes : req[c].status = "401" => req[c].att = 1

\* ---- overlapping operations of the entity stores --------------------------

\* C22: a delete that succeeds when its list is no longer the one it was
\* called on (a newer list result has replaced it) leaves the list as it is
\* now without the entity deleted: the session with the session_id given to
\* deleteSession, the document with the id given to deleteDocument; every
\* other entity is kept, in the order of the list as it is now.
C22_DeleteAppliedToNewerList ==
    [][\A op \in InFlight :
          /\ DeleteSessionFulfilled(op) /\ sessions # op.before
                => sessions' = SelectSeq(sessions, LAMBDA k : k # op.arg)
          /\ DeleteDocumentFulfilled(op) /\ documents # op.before
                => documents' = SelectSeq(documents, LAMBDA d : d.id # op.arg)]_vars

\* C24: when the selection has become session X while deleteSession(X) was
\* awaited (X was not the selection when the delete was called), the step in
\* which the delete succeeds still clears the selection and the message
\* list; stated for a session whose id is its session_id.
C24_DeleteClearsLaterSelection ==
    [][\A op \in InFlight :
          /\ idIsSessionId
          /\ DeleteSessionFulfilled(op)
          /\ op.cur # op.arg
          /\ currentSession = op.arg
          => currentSession' = None /\ messages' = <<>>]_vars

\* C25: of two loadSession calls that overlap, the one requested last (the
\* session of the route) decides: when its load has completed (it is the
\* selection, with its messages) and the load of the session requested
\* before it completes after it, the selection and the messages stay.
C25_LastRequestedLoadWins ==
    [][\A op \in InFlight : \A part \in op.pend : \A data \in MessagesData(op.arg) \cup {Null} :
          /\ LoadSessionFulfilled(op, part, data)
          /\ op.arg # sessionId
          /\ currentSession = sessionId
          /\ messages = <<HistoryMessage(sessionId)>>
          => currentSession' = sessionId /\ messages' = messages]_vars

\* C26: whenever no request is awaited and a session is selected, every
\* document of the document list is a document of that session.
C26_DocumentsOfTheSelection ==
    ops = EmptyBag /\ currentSession # None
        => \A d \in Range(documents) : d.session_id = currentSession

\* C27: the answer to a query asked in session A is added to the message
\* list only while A is the selection.
C27_AnswerGoesToItsSession ==
    [][\A op \in InFlight : AskQueryFulfilled(op) => currentSession = op.arg]_vars

\* C28: once deleteDocument(d) has succeeded, when no request is awaited d
\* is not in the document list: the response of a fetchDocuments that was
\* awaited when the delete succeeded does not put d back.
C28_DeletedDocumentStaysDeleted ==
    [][\A op \in InFlight : \A data \in DocumentsData(op.arg) :
          FetchDocumentsFulfilled(op, data)
          => \A d \in Range(documents') : d.id \notin op.gone]_vars

\* C29: from the moment logout() has settled until the next successful login
\* or signup the store is empty, also when a refresh request that was on the
\* network when logout() settled is answered afterwards.
C29_EmptyAfterLogout == loggedOut => accessToken = None

\* C30, one step: the refresh request c is answered 200.  With a token in
\* the response the store holds that token and the replay of the original
\* request carries it; with none the store keeps its value; either way a
\* store that held a token still holds one and the original request is
\* submitted once more.
C30_Step ==
    \A c \in Refreshes :
        (Answered(c) /\ req'[c].status = "200")
        => /\ accessToken # None => accessToken' # None
           /\ req'[c].got # None
                => accessToken' = req'[c].got /\ req'[Parent(c)].hdr = req'[c].got
           /\ req'[c].got = None => accessToken' = accessToken
           /\ req'[Parent(c)].st = "sent"
           /\ req'[Parent(c)].att = req[Parent(c)].att + 1

\* C30: a refresh that succeeds never empties the store: a token in the
\* response is in the store before the original request is replayed, and
\* without one the store keeps its value; in both cases the original request
\* is replayed exactly once (it has been submitted twice from then on).
C30_RefreshSuccessKeepsStore ==
    /\ [][C30_Step]_vars
    /\ [](\A c \in Refreshes :
             req[c].st = "done" /\ req[c].status = "200" => req[Parent(c)].att = 2)

\* A refresh was answered 200 without a token while the store held one: the
\* store still holds it and the original request has been replayed.
C30_Witness ==
    \E c \in Refreshes :
        /\ req[c].st = "done" /\ req[c].status = "200" /\ req[c].got = None
        /\ accessToken # None
        /\ req[Parent(c)].att = 2

====
